---- MODULE Spec2Model ----
(***************************************************************************)
(* Model of multipass' SshfsMount (src/sshfs_mount/sshfs_mount.cpp):       *)
(* the constructor's remote provisioning of the target directory, the     *)
(* resolution of the default uid/gid, the construction of the SftpServer  *)
(* and the life cycle of the thread that runs it (stop / destructor).     *)
(*                                                                         *)
(* Strings are sequences of one-character strings, so that split_path,    *)
(* trim_end and std::stoi are computed character by character as the      *)
(* code does.                                                              *)
(***************************************************************************)
EXTENDS Integers, Sequences, FiniteSets, TLC

VARIABLES
    target,         \* the target argument of the constructor
    fs,             \* paths for which std::filesystem::exists answers true
    pc,             \* position of the constructing thread in make_sftp_server / SshfsMount()
    splitting,      \* the vector filled by split_path
    idx,            \* position of the range-for over splitting (1-based)
    needs_create,   \* the local of make_sftp_server
    vm_user,        \* set_owner_for's local, after trim_end
    vm_group,       \* set_owner_for's local, after trim_end
    output,         \* make_sftp_server's local: the last id -u / id -g output
    default_uid,    \* <<>> while unset, <<n>> once std::stoi returned n
    default_gid,    \* <<>> while unset, <<n>> once std::stoi returned n
    cmds,           \* history: every command exec'ed on the session, in order
    error,          \* the exception that left the constructor, or "none"
    sftp_server,    \* "null" until make_unique<SftpServer>, then "constructed"
    stop_invoked,   \* the server has been told to stop (SftpServer::stop)
    sftp_thread,    \* [state, joinable]: the worker and its std::thread handle
    caller,         \* position of the owner of the bridge: idle / inside stop() / destroyed
    in_dtor,        \* the running stop() was called by ~SshfsMount
    stops,          \* number of explicit stop() calls made so far
    join_attempts,  \* history: how many times stop() called sftp_thread.join()
    joins           \* history: how many times a join() returned

vars == <<target, fs, pc, splitting, idx, needs_create, vm_user, vm_group, output,
          default_uid, default_gid, cmds, error, sftp_server, stop_invoked,
          sftp_thread, caller, in_dtor, stops, join_attempts, joins>>

provisionVars == <<splitting, idx, needs_create, vm_user, vm_group>>
identityVars == <<output, default_uid, default_gid>>
lifeVars == <<sftp_server, stop_invoked, sftp_thread, caller, in_dtor, stops,
              join_attempts, joins>>

(***************************************************************************)
(* Bounds of the model.                                                    *)
(***************************************************************************)
MaxPathLen == 3
MaxStops == 2

(***************************************************************************)
(* Characters and input sets.                                              *)
(***************************************************************************)
Slash == "/"
BackSlash == "\\"
PathChars == {Slash, BackSlash, "a"}
Paths == UNION {[1..n -> PathChars] : n \in 0..MaxPathLen}

ExitCodes == {0, 1}

WhiteSpace == {" ", "\n", "\t", "\r"}
UserOutputs == {<<"u", "\n">>, <<"r">>}
GroupOutputs == {<<"g", "\n">>}
IdOutputs ==
    { <<"1", "0", "0", "0", "\n">>,
      <<"1", "2", "a", "b", "c">>,
      <<"a", "b", "c">>,
      <<>>,
      <<"\n">>,
      <<"-">>,
      <<"9", "9", "9", "9", "9", "9", "9", "9", "9", "9", "9">> }

INT_MAX == 2147483647

(***************************************************************************)
(* split_path: walk the path, push the accumulated dir at every separator  *)
(* that follows a non-empty dir, normalise '\' to '/', push the whole.     *)
(***************************************************************************)
\* Variant of split_path that keeps the backslashes as they are.
RECURSIVE split_path_from_raw(_, _, _, _)
split_path_from_raw(path, i, dir, acc) ==
    IF i > Len(path)
    THEN Append(acc, dir)
    ELSE LET c == path[i]
             acc2 == IF (BackSlash = c \/ Slash = c) /\ dir # <<>>
                     THEN Append(acc, dir)
                     ELSE acc
             dir2 == Append(dir, c)
         IN  split_path_from_raw(path, i + 1, dir2, acc2)

RECURSIVE split_path_from(_, _, _, _)
split_path_from(path, i, dir, acc) ==
    IF i > Len(path)
    THEN Append(acc, dir)
    ELSE LET c == path[i]
             acc2 == IF (BackSlash = c \/ Slash = c) /\ dir # <<>>
                     THEN Append(acc, dir)
                     ELSE acc
             dir2 == Append(dir, IF BackSlash = c THEN Slash ELSE c)
         IN  split_path_from(path, i + 1, dir2, acc2)

split_path(path) == split_path_from(path, 1, <<>>, <<>>)

(***************************************************************************)
(* mp::utils::trim_end: drop the trailing white space.                     *)
(***************************************************************************)
RECURSIVE trim_end(_)
trim_end(s) ==
    IF s # <<>> /\ s[Len(s)] \in WhiteSpace
    THEN trim_end(SubSeq(s, 1, Len(s) - 1))
    ELSE s

(***************************************************************************)
(* std::stoi: skip leading white space, take an optional sign, then the    *)
(* longest run of digits; no digit -> invalid_argument, a value outside    *)
(* int -> out_of_range; whatever follows the digits is ignored.            *)
(***************************************************************************)
DigitValue(c) ==
    CASE c = "0" -> 0 [] c = "1" -> 1 [] c = "2" -> 2 [] c = "3" -> 3
      [] c = "4" -> 4 [] c = "5" -> 5 [] c = "6" -> 6 [] c = "7" -> 7
      [] c = "8" -> 8 [] c = "9" -> 9

Digits == {"0", "1", "2", "3", "4", "5", "6", "7", "8", "9"}

RECURSIVE SkipSpace(_, _)
SkipSpace(s, i) ==
    IF i <= Len(s) /\ s[i] \in WhiteSpace THEN SkipSpace(s, i + 1) ELSE i

\* The magnitude is accumulated as strtol does; over is 0 while it fits an
\* int, 1 when it is exactly INT_MAX + 1 (which only fits when negated) and
\* 2 when it is larger.
RECURSIVE ParseDigits(_, _, _, _, _)
ParseDigits(s, i, val, n, over) ==
    IF i <= Len(s) /\ s[i] \in Digits
    THEN LET d == DigitValue(s[i])
             fits == over = 0 /\ (val < INT_MAX \div 10
                                   \/ (val = INT_MAX \div 10 /\ d <= INT_MAX % 10))
             edge == over = 0 /\ val = INT_MAX \div 10 /\ d = (INT_MAX % 10) + 1
         IN  ParseDigits(s, i + 1,
                         IF fits THEN 10 * val + d ELSE val,
                         n + 1,
                         IF fits THEN 0 ELSE IF edge THEN 1 ELSE 2)
    ELSE [val |-> val, n |-> n, over |-> over]

\* Variant of stoi that rejects anything after the digits.
stoi_whole_string(s) ==
    LET i == SkipSpace(s, 1)
        signed == i <= Len(s) /\ s[i] \in {"+", "-"}
        neg == signed /\ s[i] = "-"
        j == IF signed THEN i + 1 ELSE i
        p == ParseDigits(s, j, 0, 0, 0)
    IN  IF p.n = 0 \/ j + p.n <= Len(s) THEN [err |-> "invalid_argument", val |-> 0]
        ELSE IF p.over = 2 \/ (p.over = 1 /\ ~neg)
             THEN [err |-> "out_of_range", val |-> 0]
             ELSE IF p.over = 1 THEN [err |-> "none", val |-> 0 - INT_MAX - 1]
             ELSE [err |-> "none", val |-> IF neg THEN 0 - p.val ELSE p.val]

stoi(s) ==
    LET i == SkipSpace(s, 1)
        signed == i <= Len(s) /\ s[i] \in {"+", "-"}
        neg == signed /\ s[i] = "-"
        j == IF signed THEN i + 1 ELSE i
        p == ParseDigits(s, j, 0, 0, 0)
    IN  IF p.n = 0 THEN [err |-> "invalid_argument", val |-> 0]
        ELSE IF p.over = 2 \/ (p.over = 1 /\ ~neg)
             THEN [err |-> "out_of_range", val |-> 0]
             ELSE IF p.over = 1 THEN [err |-> "none", val |-> 0 - INT_MAX - 1]
             ELSE [err |-> "none", val |-> IF neg THEN 0 - p.val ELSE p.val]

(***************************************************************************)
(* run_cmd(session, cmd, error_handler): exec the command; on a non-zero   *)
(* exit code call the handler, which throws; otherwise return the standard *)
(* output. The two handlers of the file are "default" (run_cmd's own, it   *)
(* throws std::runtime_error) and "sshfs_missing" (check_sshfs_exists').   *)
(* The result tells how often the handler ran, what was thrown and whether *)
(* the output came back to the caller.                                     *)
(***************************************************************************)
HandlerThrows(h) == IF h = "sshfs_missing" THEN "SSHFSMissingError" ELSE "runtime_error"

\* Variant of run_cmd whose handler returns: the output comes back anyway.
run_cmd_handler_returns(e, out, h) ==
    [handled |-> IF e # 0 THEN 1 ELSE 0, thrown |-> "none", returned |-> TRUE, out |-> out]

run_cmd(e, out, h) ==
    IF e # 0
    THEN [handled |-> 1, thrown |-> HandlerThrows(h), returned |-> FALSE, out |-> <<>>]
    ELSE [handled |-> 0, thrown |-> "none", returned |-> TRUE, out |-> out]

(***************************************************************************)
(* session.exec(cmd): the command is appended to the history with the      *)
(* exit code the guest answered and what run_cmd made of it.               *)
(***************************************************************************)
Cmd(name, arg, owner, e, r) ==
    [cmd |-> name, arg |-> arg, owner |-> owner, exit |-> e,
     handled |-> r.handled, returned |-> r.returned, out |-> r.out]

exists(p) == p \in fs

partial == splitting[idx]

(***************************************************************************)
(* Initial state: the constructor has been called with some target, on a   *)
(* host where some of the target's segments exist.                         *)
(***************************************************************************)
Segments(path) == LET sp == split_path(path) IN {sp[k] : k \in 1..Len(sp)}

Init ==
    /\ target \in Paths
    /\ fs \in SUBSET Segments(target)
    /\ pc = "check_sshfs_exists"
    /\ splitting = <<>>
    /\ idx = 1
    /\ needs_create = FALSE
    /\ vm_user = <<>>
    /\ vm_group = <<>>
    /\ output = <<>>
    /\ default_uid = <<>>
    /\ default_gid = <<>>
    /\ cmds = <<>>
    /\ error = "none"
    /\ sftp_server = "null"
    /\ stop_invoked = FALSE
    /\ sftp_thread = [state |-> "not_started", joinable |-> FALSE]
    /\ caller = "constructing"
    /\ in_dtor = FALSE
    /\ stops = 0
    /\ join_attempts = 0
    /\ joins = 0

(***************************************************************************)
(* An exception leaves make_sftp_server and hence the constructor.         *)
(***************************************************************************)
\* Variant in which the exception does not leave the constructor: a bridge
\* object is handed to the caller all the same.
Throw_bridge_survives(e) ==
    /\ error' = e
    /\ pc' = "failed"
    /\ caller' = "idle"

Throw(e) ==
    /\ error' = e
    /\ pc' = "failed"
    /\ caller' = "no_bridge"

\* Variant of check_sshfs_exists whose handler logs the warning and returns.
check_sshfs_exists_log_only ==
    /\ pc = "check_sshfs_exists"
    /\ \E e \in ExitCodes :
        LET r == run_cmd(e, <<>>, "sshfs_missing") IN
        /\ cmds' = Append(cmds, Cmd("which sshfs", <<>>, <<>>, e, r))
        /\ pc' = "split_path"
        /\ UNCHANGED <<error, caller>>
    /\ UNCHANGED <<target, fs, provisionVars, identityVars, sftp_server, stop_invoked,
                   sftp_thread, in_dtor, stops, join_attempts, joins>>

(***************************************************************************)
(* check_sshfs_exists: run "which sshfs"; the handler throws               *)
(* SSHFSMissingError on a non-zero exit code.                              *)
(***************************************************************************)
check_sshfs_exists ==
    /\ pc = "check_sshfs_exists"
    /\ \E e \in ExitCodes :
        LET r == run_cmd(e, <<>>, "sshfs_missing") IN
        /\ cmds' = Append(cmds, Cmd("which sshfs", <<>>, <<>>, e, r))
        /\ IF r.thrown # "none"
           THEN Throw(r.thrown)
           ELSE pc' = "split_path" /\ UNCHANGED <<error, caller>>
    /\ UNCHANGED <<target, fs, provisionVars, identityVars, sftp_server, stop_invoked,
                   sftp_thread, in_dtor, stops, join_attempts, joins>>

(***************************************************************************)
(* split_path(target, splitting) and the start of the range-for.           *)
(***************************************************************************)
SplitTarget ==
    /\ pc = "split_path"
    /\ splitting' = split_path(target)
    /\ idx' = 1
    /\ needs_create' = FALSE
    /\ pc' = "for"
    /\ UNCHANGED <<target, fs, vm_user, vm_group, identityVars, cmds, error, lifeVars>>

(***************************************************************************)
(* One test of the loop: leave it at the end, skip a segment that exists   *)
(* while nothing was created yet, otherwise latch needs_create and go on   *)
(* to make_target_dir.                                                     *)
(***************************************************************************)
\* Variants of the loop's condition: without the needs_create latch, and
\* with the existence test inverted.
MustCreate_no_latch(nc, p) == ~exists(p)

MustCreate_inverted(nc, p) == nc \/ exists(p)

MustCreate(nc, p) == nc \/ ~exists(p)

ForDone ==
    /\ pc = "for"
    /\ idx > Len(splitting)
    /\ pc' = "id_u"
    /\ UNCHANGED <<target, fs, provisionVars, identityVars, cmds, error, lifeVars>>

ForSkip ==
    /\ pc = "for"
    /\ idx <= Len(splitting)
    /\ ~MustCreate(needs_create, partial)
    /\ idx' = idx + 1
    /\ UNCHANGED <<target, fs, pc, splitting, needs_create, vm_user, vm_group,
                   identityVars, cmds, error, lifeVars>>

\* Variant of the loop body that does not set needs_create.
ForCreate_forgets_latch ==
    /\ pc = "for"
    /\ idx <= Len(splitting)
    /\ MustCreate(needs_create, partial)
    /\ pc' = "make_target_dir"
    /\ UNCHANGED <<target, fs, splitting, idx, needs_create, vm_user, vm_group,
                   identityVars, cmds, error, lifeVars>>

ForCreate ==
    /\ pc = "for"
    /\ idx <= Len(splitting)
    /\ MustCreate(needs_create, partial)
    /\ needs_create' = TRUE
    /\ pc' = "make_target_dir"
    /\ UNCHANGED <<target, fs, splitting, idx, vm_user, vm_group,
                   identityVars, cmds, error, lifeVars>>

(***************************************************************************)
(* run_cmd with the default handler: a non-zero exit code throws           *)
(* std::runtime_error.                                                     *)
(***************************************************************************)
\* Variant of make_target_dir that does not look at the exit code.
make_target_dir_ignore_exit ==
    /\ pc = "make_target_dir"
    /\ \E e \in ExitCodes :
        LET r == run_cmd(e, <<>>, "default") IN
        /\ cmds' = Append(cmds, Cmd("mkdir", partial, <<>>, e, r))
        /\ pc' = "id_nu"
        /\ UNCHANGED <<error, caller>>
    /\ UNCHANGED <<target, fs, provisionVars, identityVars, sftp_server, stop_invoked,
                   sftp_thread, in_dtor, stops, join_attempts, joins>>

make_target_dir ==
    /\ pc = "make_target_dir"
    /\ \E e \in ExitCodes :
        LET r == run_cmd(e, <<>>, "default") IN
        /\ cmds' = Append(cmds, Cmd("mkdir", partial, <<>>, e, r))
        /\ IF r.thrown # "none"
           THEN Throw(r.thrown)
           ELSE pc' = "id_nu" /\ UNCHANGED <<error, caller>>
    /\ UNCHANGED <<target, fs, provisionVars, identityVars, sftp_server, stop_invoked,
                   sftp_thread, in_dtor, stops, join_attempts, joins>>

(***************************************************************************)
(* set_owner_for: id -nu, id -ng, trim_end of both, then chown.            *)
(***************************************************************************)
\* Variant of set_owner_for that does not trim the user name.
set_owner_id_nu_no_trim ==
    /\ pc = "id_nu"
    /\ \E e \in ExitCodes, out \in UserOutputs :
        LET r == run_cmd(e, out, "default") IN
        /\ cmds' = Append(cmds, Cmd("id -nu", <<>>, <<>>, e, r))
        /\ IF r.thrown # "none"
           THEN Throw(r.thrown) /\ UNCHANGED vm_user
           ELSE /\ vm_user' = r.out
                /\ pc' = "id_ng"
                /\ UNCHANGED <<error, caller>>
    /\ UNCHANGED <<target, fs, splitting, idx, needs_create, vm_group, identityVars,
                   sftp_server, stop_invoked, sftp_thread, in_dtor, stops,
                   join_attempts, joins>>

set_owner_id_nu ==
    /\ pc = "id_nu"
    /\ \E e \in ExitCodes, out \in UserOutputs :
        LET r == run_cmd(e, out, "default") IN
        /\ cmds' = Append(cmds, Cmd("id -nu", <<>>, <<>>, e, r))
        /\ IF r.thrown # "none"
           THEN Throw(r.thrown) /\ UNCHANGED vm_user
           ELSE /\ vm_user' = trim_end(r.out)
                /\ pc' = "id_ng"
                /\ UNCHANGED <<error, caller>>
    /\ UNCHANGED <<target, fs, splitting, idx, needs_create, vm_group, identityVars,
                   sftp_server, stop_invoked, sftp_thread, in_dtor, stops,
                   join_attempts, joins>>

set_owner_id_ng ==
    /\ pc = "id_ng"
    /\ \E e \in ExitCodes, out \in GroupOutputs :
        LET r == run_cmd(e, out, "default") IN
        /\ cmds' = Append(cmds, Cmd("id -ng", <<>>, <<>>, e, r))
        /\ IF r.thrown # "none"
           THEN Throw(r.thrown) /\ UNCHANGED vm_group
           ELSE /\ vm_group' = trim_end(r.out)
                /\ pc' = "chown"
                /\ UNCHANGED <<error, caller>>
    /\ UNCHANGED <<target, fs, splitting, idx, needs_create, vm_user, identityVars,
                   sftp_server, stop_invoked, sftp_thread, in_dtor, stops,
                   join_attempts, joins>>

\* Variant of the chown step that names the whole target, not the segment.
set_owner_chown_whole_target ==
    /\ pc = "chown"
    /\ \E e \in ExitCodes :
        LET r == run_cmd(e, <<>>, "default") IN
        /\ cmds' = Append(cmds, Cmd("chown", splitting[Len(splitting)], <<vm_user, vm_group>>, e, r))
        /\ IF r.thrown # "none"
           THEN Throw(r.thrown) /\ UNCHANGED idx
           ELSE /\ idx' = idx + 1
                /\ pc' = "for"
                /\ UNCHANGED <<error, caller>>
    /\ UNCHANGED <<target, fs, splitting, needs_create, vm_user, vm_group, identityVars,
                   sftp_server, stop_invoked, sftp_thread, in_dtor, stops,
                   join_attempts, joins>>

\* Variant of the chown step that does not look at the exit code.
set_owner_chown_ignore_exit ==
    /\ pc = "chown"
    /\ \E e \in ExitCodes :
        LET r == run_cmd(e, <<>>, "default") IN
        /\ cmds' = Append(cmds, Cmd("chown", partial, <<vm_user, vm_group>>, e, r))
        /\ idx' = idx + 1
        /\ pc' = "for"
        /\ UNCHANGED <<error, caller>>
    /\ UNCHANGED <<target, fs, splitting, needs_create, vm_user, vm_group, identityVars,
                   sftp_server, stop_invoked, sftp_thread, in_dtor, stops,
                   join_attempts, joins>>

set_owner_chown ==
    /\ pc = "chown"
    /\ \E e \in ExitCodes :
        LET r == run_cmd(e, <<>>, "default") IN
        /\ cmds' = Append(cmds, Cmd("chown", partial, <<vm_user, vm_group>>, e, r))
        /\ IF r.thrown # "none"
           THEN Throw(r.thrown) /\ UNCHANGED idx
           ELSE /\ idx' = idx + 1
                /\ pc' = "for"
                /\ UNCHANGED <<error, caller>>
    /\ UNCHANGED <<target, fs, splitting, needs_create, vm_user, vm_group, identityVars,
                   sftp_server, stop_invoked, sftp_thread, in_dtor, stops,
                   join_attempts, joins>>

(***************************************************************************)
(* id -u / id -g and std::stoi of their output.                            *)
(***************************************************************************)
query_default_uid ==
    /\ pc = "id_u"
    /\ \E e \in ExitCodes, out \in IdOutputs :
        LET r == run_cmd(e, out, "default") IN
        /\ cmds' = Append(cmds, Cmd("id -u", <<>>, <<>>, e, r))
        /\ IF r.thrown # "none"
           THEN Throw(r.thrown) /\ UNCHANGED <<output, default_uid>>
           ELSE /\ output' = r.out
                /\ IF stoi(r.out).err # "none"
                   THEN Throw(stoi(r.out).err) /\ UNCHANGED default_uid
                   ELSE /\ default_uid' = <<stoi(r.out).val>>
                        /\ pc' = "id_g"
                        /\ UNCHANGED <<error, caller>>
    /\ UNCHANGED <<target, fs, provisionVars, default_gid, sftp_server, stop_invoked,
                   sftp_thread, in_dtor, stops, join_attempts, joins>>

query_default_gid ==
    /\ pc = "id_g"
    /\ \E e \in ExitCodes, out \in IdOutputs :
        LET r == run_cmd(e, out, "default") IN
        /\ cmds' = Append(cmds, Cmd("id -g", <<>>, <<>>, e, r))
        /\ IF r.thrown # "none"
           THEN Throw(r.thrown) /\ UNCHANGED <<output, default_gid>>
           ELSE /\ output' = r.out
                /\ IF stoi(r.out).err # "none"
                   THEN Throw(stoi(r.out).err) /\ UNCHANGED default_gid
                   ELSE /\ default_gid' = <<stoi(r.out).val>>
                        /\ pc' = "make_unique"
                        /\ UNCHANGED <<error, caller>>
    /\ UNCHANGED <<target, fs, provisionVars, default_uid, sftp_server, stop_invoked,
                   sftp_thread, in_dtor, stops, join_attempts, joins>>

(***************************************************************************)
(* std::make_unique<SftpServer>(std::move(session), ...): ends             *)
(* make_sftp_server and initialises the member sftp_server.                *)
(***************************************************************************)
\* Variant that moves the session into the server before the id -g query.
make_sftp_server_return_early ==
    /\ pc = "id_g"
    /\ sftp_server = "null"
    /\ sftp_server' = "constructed"
    /\ UNCHANGED <<target, fs, pc, provisionVars, identityVars, cmds, error, stop_invoked,
                   sftp_thread, caller, in_dtor, stops, join_attempts, joins>>

make_sftp_server_return ==
    /\ pc = "make_unique"
    /\ sftp_server' = "constructed"
    /\ pc' = "start_thread"
    /\ UNCHANGED <<target, fs, provisionVars, identityVars, cmds, error, stop_invoked,
                   sftp_thread, caller, in_dtor, stops, join_attempts, joins>>

(***************************************************************************)
(* The member initialiser of sftp_thread starts the worker; the            *)
(* constructor returns and the bridge is in the hands of its owner.        *)
(***************************************************************************)
\* Variant in which the thread member is initialised before sftp_server.
StartThread_before_server ==
    /\ pc = "make_unique"
    /\ sftp_thread.state = "not_started"
    /\ sftp_thread' = [state |-> "started", joinable |-> TRUE]
    /\ UNCHANGED <<target, fs, pc, provisionVars, identityVars, cmds, error, sftp_server,
                   stop_invoked, caller, in_dtor, stops, join_attempts, joins>>

StartThread ==
    /\ pc = "start_thread"
    /\ sftp_thread' = [state |-> "started", joinable |-> TRUE]
    /\ pc' = "constructed"
    /\ caller' = "idle"
    /\ UNCHANGED <<target, fs, provisionVars, identityVars, cmds, error, sftp_server,
                   stop_invoked, in_dtor, stops, join_attempts, joins>>

(***************************************************************************)
(* The worker: sftp_server->run(), which serves until the server is told   *)
(* to stop or the channel is closed from outside.                          *)
(***************************************************************************)
WorkerRun ==
    /\ sftp_thread.state = "started"
    /\ sftp_thread' = [sftp_thread EXCEPT !.state = "in_run"]
    /\ UNCHANGED <<target, fs, pc, provisionVars, identityVars, cmds, error, sftp_server,
                   stop_invoked, caller, in_dtor, stops, join_attempts, joins>>

RunReturnsOnStop ==
    /\ sftp_thread.state = "in_run"
    /\ stop_invoked
    /\ sftp_thread' = [sftp_thread EXCEPT !.state = "finished"]
    /\ UNCHANGED <<target, fs, pc, provisionVars, identityVars, cmds, error, sftp_server,
                   stop_invoked, caller, in_dtor, stops, join_attempts, joins>>

RunReturnsOnClose ==
    /\ sftp_thread.state = "in_run"
    /\ ~stop_invoked
    /\ sftp_thread' = [sftp_thread EXCEPT !.state = "finished"]
    /\ UNCHANGED <<target, fs, pc, provisionVars, identityVars, cmds, error, sftp_server,
                   stop_invoked, caller, in_dtor, stops, join_attempts, joins>>

(***************************************************************************)
(* SshfsMount::stop, called by the owner or by the destructor:             *)
(* sftp_server->stop(); if (sftp_thread.joinable()) sftp_thread.join();    *)
(***************************************************************************)
\* Variant of stop() that goes to the join without telling the server.
CallStop_skips_signal ==
    /\ caller = "idle"
    /\ stops < MaxStops
    /\ stops' = stops + 1
    /\ in_dtor' = FALSE
    /\ caller' = "joinable"
    /\ UNCHANGED <<target, fs, pc, provisionVars, identityVars, cmds, error, sftp_server,
                   stop_invoked, sftp_thread, join_attempts, joins>>

CallStop ==
    /\ caller = "idle"
    /\ stops < MaxStops
    /\ stops' = stops + 1
    /\ in_dtor' = FALSE
    /\ caller' = "stop_server"
    /\ UNCHANGED <<target, fs, pc, provisionVars, identityVars, cmds, error, sftp_server,
                   stop_invoked, sftp_thread, join_attempts, joins>>

\* Variant of the destructor that does not call stop().
Destructor_no_stop ==
    /\ caller = "idle"
    /\ in_dtor' = TRUE
    /\ caller' = "destroyed"
    /\ UNCHANGED <<target, fs, pc, provisionVars, identityVars, cmds, error, sftp_server,
                   stop_invoked, sftp_thread, stops, join_attempts, joins>>

Destructor ==
    /\ caller = "idle"
    /\ in_dtor' = TRUE
    /\ caller' = "stop_server"
    /\ UNCHANGED <<target, fs, pc, provisionVars, identityVars, cmds, error, sftp_server,
                   stop_invoked, sftp_thread, stops, join_attempts, joins>>

StopReturn == IF in_dtor THEN "destroyed" ELSE "idle"

\* Variant of stop() whose call of sftp_server->stop() is lost.
StopServer_no_signal ==
    /\ caller = "stop_server"
    /\ caller' = "joinable"
    /\ UNCHANGED <<target, fs, pc, provisionVars, identityVars, cmds, error, sftp_server,
                   stop_invoked, sftp_thread, in_dtor, stops, join_attempts, joins>>

StopServer ==
    /\ caller = "stop_server"
    /\ stop_invoked' = TRUE
    /\ caller' = "joinable"
    /\ UNCHANGED <<target, fs, pc, provisionVars, identityVars, cmds, error, sftp_server,
                   sftp_thread, in_dtor, stops, join_attempts, joins>>

\* Variant of stop() that joins without testing joinable().
StopTestJoinable_always_join ==
    /\ caller = "joinable"
    /\ caller' = "join"
    /\ join_attempts' = join_attempts + 1
    /\ UNCHANGED <<target, fs, pc, provisionVars, identityVars, cmds, error, sftp_server,
                   stop_invoked, sftp_thread, in_dtor, stops, joins>>

\* Variant of stop() with the joinable() test inverted.
StopTestJoinable_inverted ==
    /\ caller = "joinable"
    /\ IF ~sftp_thread.joinable
       THEN /\ caller' = "join"
            /\ join_attempts' = join_attempts + 1
       ELSE /\ caller' = StopReturn
            /\ UNCHANGED join_attempts
    /\ UNCHANGED <<target, fs, pc, provisionVars, identityVars, cmds, error, sftp_server,
                   stop_invoked, sftp_thread, in_dtor, stops, joins>>

StopTestJoinable ==
    /\ caller = "joinable"
    /\ IF sftp_thread.joinable
       THEN /\ caller' = "join"
            /\ join_attempts' = join_attempts + 1
       ELSE /\ caller' = StopReturn
            /\ UNCHANGED join_attempts
    /\ UNCHANGED <<target, fs, pc, provisionVars, identityVars, cmds, error, sftp_server,
                   stop_invoked, sftp_thread, in_dtor, stops, joins>>

StopJoin ==
    /\ caller = "join"
    /\ sftp_thread.state = "finished"
    /\ sftp_thread' = [sftp_thread EXCEPT !.joinable = FALSE]
    /\ joins' = joins + 1
    /\ caller' = StopReturn
    /\ UNCHANGED <<target, fs, pc, provisionVars, identityVars, cmds, error, sftp_server,
                   stop_invoked, in_dtor, stops, join_attempts>>

Next ==
    \/ check_sshfs_exists
    \/ SplitTarget
    \/ ForDone
    \/ ForSkip
    \/ ForCreate
    \/ make_target_dir
    \/ set_owner_id_nu
    \/ set_owner_id_ng
    \/ set_owner_chown
    \/ query_default_uid
    \/ query_default_gid
    \/ make_sftp_server_return
    \/ StartThread
    \/ WorkerRun
    \/ RunReturnsOnStop
    \/ RunReturnsOnClose
    \/ CallStop
    \/ Destructor
    \/ StopServer
    \/ StopTestJoinable
    \/ StopJoin

Spec == Init /\ [][Next]_vars

(***************************************************************************)
(* The same program under fair scheduling: the worker thread runs, run()   *)
(* returns once the server was told to stop, and the thread inside stop()  *)
(* goes on. Nothing forces the channel to be closed from outside, nor the  *)
(* owner to call stop() or to destroy the bridge.                          *)
(***************************************************************************)
LiveSpec ==
    /\ Init
    /\ [][Next]_vars
    /\ WF_vars(WorkerRun)
    /\ WF_vars(RunReturnsOnStop)
    /\ WF_vars(StopServer)
    /\ WF_vars(StopTestJoinable)
    /\ WF_vars(StopJoin)

(***************************************************************************)
(* Vocabulary of the properties.                                           *)
(***************************************************************************)
Issued(name) == {i \in 1..Len(cmds) : cmds[i].cmd = name}
TargetsOf(name) == {cmds[i].arg : i \in Issued(name)}
ProvisioningCmds == {"mkdir", "id -nu", "id -ng", "chown"}
IdentityCmds == {"id -u", "id -g"}
ProvisioningDone == pc \in {"id_u", "id_g", "make_unique", "start_thread", "constructed"}
Missing == {s \in Segments(target) : s \notin fs}
FromFirstMissing ==
    LET segs == Segments(target)
        missing == {s \in segs : s \notin fs}
    IN  {s \in segs : \E m \in missing : Len(m) <= Len(s)}
AncestorClosed ==
    LET segs == Segments(target)
    IN  \A s \in fs : \A t \in segs : Len(t) <= Len(s) => t \in fs

\* C1: when "which sshfs" exits non-zero the construction fails with
\* SSHFSMissingError and no other command (mkdir, id -nu, id -ng, chown,
\* id -u, id -g) is ever issued on the session.
PreflightFailureIsMissingDependency ==
    /\ \A i \in Issued("which sshfs") :
          cmds[i].exit # 0 =>
             /\ error = "SSHFSMissingError"
             /\ pc = "failed"
             /\ Len(cmds) = 1
             /\ sftp_server = "null"
    /\ error = "SSHFSMissingError" => cmds[1].exit # 0

PreflightFailed ==
    /\ Len(cmds) = 1
    /\ cmds[1].cmd = "which sshfs"
    /\ cmds[1].exit # 0
    /\ pc = "failed"

NothingProvisionedWhenAllExist ==
    Segments(target) \subseteq fs =>
        \A i \in 1..Len(cmds) : cmds[i].cmd \notin ProvisioningCmds

ConstructedWithAllExisting ==
    /\ Segments(target) \subseteq fs
    /\ pc = "constructed"
    /\ Len(cmds) = 3

\* C4: once provisioning has gone through (every command succeeded), a chown
\* was issued for a segment iff a mkdir was issued for it, one chown per
\* mkdir, and each chown names the segment of the mkdir that precedes it.
ChownExactlyTheCreated ==
    ProvisioningDone =>
        /\ TargetsOf("chown") = TargetsOf("mkdir")
        /\ Cardinality(Issued("chown")) = Cardinality(Issued("mkdir"))
        /\ \A i \in Issued("chown") :
              /\ i > 3
              /\ cmds[i - 3].cmd = "mkdir"
              /\ cmds[i - 3].arg = cmds[i].arg

TwoSegmentsCreatedAndOwned ==
    /\ ProvisioningDone
    /\ Cardinality(TargetsOf("chown")) = 2
    /\ \A i \in 1..Len(cmds) : cmds[i].exit = 0

\* C5: over any sequence of stop() calls, the destructor's included, join()
\* is called at most once and only on a joinable thread; once the first
\* stop() has returned the worker is joined, and later stop() calls return
\* without joining.
JoinedAtMostOnce ==
    /\ join_attempts <= 1
    /\ joins <= join_attempts
    /\ caller = "join" => sftp_thread.joinable
    /\ (caller \in {"idle", "destroyed"} /\ (stops >= 1 \/ caller = "destroyed")) =>
          /\ joins = 1
          /\ ~sftp_thread.joinable
          /\ sftp_thread.state = "finished"

StoppedTwiceThenDestroyed ==
    /\ caller = "destroyed"
    /\ stops = 2
    /\ joins = 1

\* C6: a bridge that is destroyed, also without any explicit stop(), has a
\* worker that has finished and has been joined.
DestroyedOnlyWhenJoined ==
    caller = "destroyed" =>
        /\ sftp_thread.state = "finished"
        /\ ~sftp_thread.joinable
        /\ joins = 1
        /\ stop_invoked

DestroyedWithoutStop ==
    /\ caller = "destroyed"
    /\ stops = 0

\* C7: the phases come in the order preflight, provisioning, identity
\* resolution, server construction, worker start: nothing is issued before a
\* successful "which sshfs"; id -u follows the completed provisioning and
\* id -g follows a successful id -u, with no provisioning command after
\* them; the server exists only after both queries succeeded and parsed;
\* the worker is started only once the server exists.
PhasesInOrder ==
    /\ \A i \in 1..Len(cmds) :
          cmds[i].cmd # "which sshfs" =>
             i > 1 /\ cmds[1].cmd = "which sshfs" /\ cmds[1].exit = 0
    /\ \A i \in Issued("id -u") :
          /\ cmds[i - 1].cmd \in {"which sshfs", "chown"}
          /\ cmds[i - 1].exit = 0
    /\ \A i \in Issued("id -g") :
          cmds[i - 1].cmd = "id -u" /\ cmds[i - 1].exit = 0
    /\ \A j \in 2..Len(cmds) :
          cmds[j - 1].cmd \in IdentityCmds => cmds[j].cmd \in IdentityCmds
    /\ sftp_server = "constructed" =>
          /\ Len(cmds) >= 3
          /\ cmds[Len(cmds) - 1].cmd = "id -u" /\ cmds[Len(cmds) - 1].exit = 0
          /\ cmds[Len(cmds)].cmd = "id -g" /\ cmds[Len(cmds)].exit = 0
          /\ default_uid # <<>>
          /\ default_gid # <<>>
    /\ sftp_thread.state # "not_started" => sftp_server = "constructed"

WorkerStartedAfterProvisioning ==
    /\ sftp_thread.state = "started"
    /\ Issued("mkdir") # {}
    /\ Issued("chown") # {}

\* C8: segments are created shortest first; the chown of a segment comes
\* after the successful mkdir of that segment and before the mkdir of any
\* longer one; for target a/a with nothing existing the order is
\* mkdir a, chown a, mkdir a/a, chown a/a.
MkdirOrChown(c) == c.cmd \in {"mkdir", "chown"}

ProvisioningInOrder ==
    LET mkdirs == Issued("mkdir")
        chowns == Issued("chown")
    IN
    /\ \A i \in mkdirs : \A j \in mkdirs :
          i < j =>
             /\ Len(cmds[i].arg) < Len(cmds[j].arg)
             /\ \E k \in chowns :
                   i < k /\ k < j /\ cmds[k].arg = cmds[i].arg /\ cmds[k].exit = 0
    /\ \A k \in chowns :
          \E i \in mkdirs :
             /\ i < k
             /\ cmds[i].arg = cmds[k].arg
             /\ cmds[i].exit = 0
             /\ \A j \in mkdirs : j <= i \/ j > k
    /\ (ProvisioningDone /\ target = <<"a", "/", "a">> /\ fs = {}) =>
          LET w == SelectSeq(cmds, MkdirOrChown)
          IN  /\ Len(w) = 4
              /\ <<w[1].cmd, w[2].cmd, w[3].cmd, w[4].cmd>>
                    = <<"mkdir", "chown", "mkdir", "chown">>
              /\ <<w[1].arg, w[2].arg, w[3].arg, w[4].arg>>
                    = << <<"a">>, <<"a">>, <<"a", "/", "a">>, <<"a", "/", "a">> >>

BothSegmentsProvisioned ==
    /\ ProvisioningDone
    /\ target = <<"a", "/", "a">>
    /\ fs = {}
    /\ Len(SelectSeq(cmds, MkdirOrChown)) = 4

\* C9: split_path yields prefixes of the normalised path (backslashes turned
\* into slashes), of non-decreasing length, the last being the whole
\* normalised path.
Normalized(path) == [i \in 1..Len(path) |-> IF path[i] = BackSlash THEN Slash ELSE path[i]]
IsPrefix(a, b) == Len(a) <= Len(b) /\ \A i \in 1..Len(a) : a[i] = b[i]
SplitDone == pc \notin {"check_sshfs_exists", "split_path"} /\ error # "SSHFSMissingError"

SplitPathYieldsGrowingPrefixes ==
    SplitDone =>
        /\ Len(splitting) >= 1
        /\ \A k \in 1..Len(splitting) : IsPrefix(splitting[k], Normalized(target))
        /\ \A k \in 2..Len(splitting) : Len(splitting[k - 1]) <= Len(splitting[k])
        /\ splitting[Len(splitting)] = Normalized(target)

SplitABackslashPath ==
    /\ SplitDone
    /\ Len(splitting) >= 2
    /\ \E i \in 1..Len(target) : target[i] = BackSlash
    /\ target[1] \in {Slash, BackSlash}

\* C10, as claimed: an id -u / id -g output that, once its trailing white
\* space is trimmed, is not an integer makes the construction fail with a
\* parse error, and the server is not constructed.
IsInteger(s) ==
    LET body == IF s # <<>> /\ s[1] \in {"+", "-"} THEN SubSeq(s, 2, Len(s)) ELSE s
    IN  body # <<>> /\ \A i \in 1..Len(body) : body[i] \in Digits
IdAnswered ==
    /\ cmds # <<>>
    /\ cmds[Len(cmds)].cmd \in IdentityCmds
    /\ cmds[Len(cmds)].exit = 0
ParseErrors == {"invalid_argument", "out_of_range"}

NonIntegerOutputFails ==
    (IdAnswered /\ ~IsInteger(trim_end(output))) =>
        error \in ParseErrors /\ sftp_server = "null"

\* C10, amended: the construction fails with a parse error exactly when the
\* output, after leading white space and an optional sign, does not start
\* with a digit, or when its leading digits are too many for an int; then
\* the server is never constructed. Otherwise what follows the leading
\* digits is ignored: "1000\n" resolves to 1000 and "12abc" to 12.
LeadingDigits(s) ==
    LET i == SkipSpace(s, 1)
        j == IF i <= Len(s) /\ s[i] \in {"+", "-"} THEN i + 1 ELSE i
    IN  Cardinality({k \in j..Len(s) : \A m \in j..k : s[m] \in Digits})
Resolved == IF cmds[Len(cmds)].cmd = "id -u" THEN default_uid ELSE default_gid

OutputWithoutLeadingNumberFails ==
    /\ IdAnswered =>
          /\ error = "invalid_argument" <=> LeadingDigits(output) = 0
          /\ LeadingDigits(output) > 10 => error = "out_of_range"
          /\ LeadingDigits(output) \in 1..9 => error = "none" /\ Resolved # <<>>
          /\ output = <<"1", "0", "0", "0", "\n">> => Resolved = <<1000>>
          /\ output = <<"1", "2", "a", "b", "c">> => Resolved = <<12>>
    /\ error \in ParseErrors => sftp_server = "null" /\ pc = "failed"

ResolvedDespiteTrailingText ==
    /\ IdAnswered
    /\ output = <<"1", "2", "a", "b", "c">>
    /\ sftp_server = "constructed"
    /\ default_gid = <<12>>

\* C11: when any step of the construction fails (preflight, a provisioning
\* command, an identity query or its parsing), the server is not
\* constructed, no worker is started and no bridge exists: no stop() and no
\* destructor ever runs.
Failed == error # "none"

FailedConstructionLeavesNothing ==
    /\ Failed <=> pc = "failed"
    /\ (\E i \in 1..Len(cmds) : cmds[i].exit # 0) => Failed
    /\ Failed =>
          /\ sftp_server = "null"
          /\ sftp_thread.state = "not_started"
          /\ ~sftp_thread.joinable
          /\ caller = "no_bridge"
          /\ stops = 0
          /\ ~in_dtor
          /\ ~stop_invoked
          /\ join_attempts = 0

FailedWhileParsingGid ==
    /\ error = "invalid_argument"
    /\ cmds[Len(cmds)].cmd = "id -g"
    /\ default_uid # <<>>
    /\ Issued("mkdir") # {}

\* C12: run_cmd returns the standard output iff the exit code is zero; on a
\* non-zero exit code the handler is called exactly once, nothing is
\* returned, and the construction ends with the handler's exception
\* (std::runtime_error for the default handler); what the callers keep is
\* what run_cmd returned.
RunCmdReturnsOutputIffExitZero ==
    /\ \A i \in 1..Len(cmds) :
          /\ cmds[i].returned <=> cmds[i].exit = 0
          /\ cmds[i].handled = (IF cmds[i].exit = 0 THEN 0 ELSE 1)
          /\ cmds[i].exit # 0 =>
                /\ i = Len(cmds)
                /\ cmds[i].out = <<>>
                /\ error = (IF cmds[i].cmd = "which sshfs"
                            THEN "SSHFSMissingError" ELSE "runtime_error")
    /\ pc = "id_ng" => vm_user = trim_end(cmds[Len(cmds)].out)
    /\ pc = "chown" => vm_group = trim_end(cmds[Len(cmds)].out)
    /\ IdAnswered => output = cmds[Len(cmds)].out

DefaultHandlerThrewAfterSuccesses ==
    /\ Len(cmds) >= 3
    /\ cmds[1].returned
    /\ cmds[Len(cmds)].cmd = "id -u"
    /\ cmds[Len(cmds)].exit # 0
    /\ cmds[Len(cmds)].handled = 1
    /\ error = "runtime_error"

\* C13: when a provisioning command (mkdir, id -nu, id -ng, chown) exits
\* non-zero, it is the last command ever issued on the session: the
\* construction has failed with std::runtime_error, no command follows
\* (no later segment, no identity query, no removal), and the segments
\* created before stay created.
GuestCreated == {cmds[i].arg : i \in {j \in Issued("mkdir") : cmds[j].exit = 0}}
KnownCmds == {"which sshfs"} \cup ProvisioningCmds \cup IdentityCmds

ProvisioningFailureAborts ==
    /\ [](\A i \in 1..Len(cmds) :
            /\ cmds[i].cmd \in KnownCmds
            /\ (cmds[i].cmd \in ProvisioningCmds /\ cmds[i].exit # 0) =>
                  /\ i = Len(cmds)
                  /\ pc = "failed"
                  /\ error = "runtime_error"
                  /\ sftp_server = "null")
    /\ [][pc = "failed" => cmds' = cmds]_vars
    /\ [][GuestCreated \subseteq GuestCreated']_vars

SecondMkdirFailed ==
    /\ pc = "failed"
    /\ cmds[Len(cmds)].cmd = "mkdir"
    /\ cmds[Len(cmds)].exit # 0
    /\ GuestCreated # {}
    /\ Issued("chown") # {}

\* C14: the life cycle moves forward only, one step at a time, along
\* Constructing, Running, Stopping, Stopped; Stopped is never left, whatever
\* stop() or destructor call follows; and a stop() that has returned leaves
\* the bridge Stopped.
InStop == caller \in {"stop_server", "joinable", "join"}
LifeOrder == <<"Constructing", "Running", "Stopping", "Stopped">>
LifeState ==
    IF caller \in {"constructing", "no_bridge"} THEN "Constructing"
    ELSE IF ~sftp_thread.joinable THEN "Stopped"
    ELSE IF stop_invoked \/ InStop THEN "Stopping"
    ELSE "Running"
LifeCycle == CHOOSE i \in 1..Len(LifeOrder) : LifeOrder[i] = LifeState
Stopped == Len(LifeOrder)

LifeCycleMovesForward ==
    /\ [][LifeCycle' >= LifeCycle /\ LifeCycle' <= LifeCycle + 1]_vars
    /\ [][LifeCycle = Stopped => LifeCycle' = Stopped]_vars
    /\ []((caller \in {"idle", "destroyed"} /\ (stops >= 1 \/ caller = "destroyed"))
            => LifeCycle = Stopped)

StopCalledWhenStopped ==
    /\ LifeCycle = Stopped
    /\ caller = "joinable"
    /\ stops = 2

\* C15: in every stop() the server is told to stop before the join is
\* attempted, and a stop() that found the worker joinable returns only when
\* the worker has finished, having joined it.
SignalBeforeJoin ==
    /\ [](caller \in {"joinable", "join"} => stop_invoked)
    /\ [][join_attempts' > join_attempts => stop_invoked]_vars
    /\ [][(InStop /\ ~InStop' /\ sftp_thread.joinable) =>
             /\ sftp_thread.state = "finished"
             /\ ~sftp_thread'.joinable
             /\ joins' = joins + 1]_vars

StopWaitsForWorker ==
    /\ caller = "join"
    /\ sftp_thread.state = "in_run"
    /\ stop_invoked

\* C16: under fair scheduling, and with run() returning once the server was
\* told to stop, every stop() that was called eventually returns with the
\* worker finished and joined, also when the server is told to stop before
\* the worker has entered run().
StopEventuallyReturns ==
    (caller = "stop_server") ~>
        (/\ caller \in {"idle", "destroyed"}
         /\ sftp_thread.state = "finished"
         /\ ~sftp_thread.joinable)

SignalledBeforeRunEntered ==
    /\ caller = "join"
    /\ stop_invoked
    /\ sftp_thread.state = "started"

\* C17: once the session has been moved into the server the constructing
\* side issues no command: every command is issued while the server does not
\* exist and the worker is not started, and the history of commands never
\* grows once the server exists.
CommandPcs ==
    {"check_sshfs_exists", "make_target_dir", "id_nu", "id_ng", "chown", "id_u", "id_g"}

NoCommandAfterSessionMoved ==
    /\ [][sftp_server = "constructed" => cmds' = cmds]_vars
    /\ [][cmds' # cmds => sftp_server' = "null" /\ sftp_thread'.state = "not_started"]_vars
    /\ [](pc \in CommandPcs => sftp_server = "null" /\ sftp_thread.state = "not_started")
    /\ [](sftp_thread.state # "not_started" => pc = "constructed")

WorkerServesAfterProvisioning ==
    /\ sftp_thread.state = "in_run"
    /\ pc = "constructed"
    /\ Len(cmds) > 3

\* C18: a segment is skipped only if it exists and every shorter segment
\* was skipped too; from the first missing segment onward every segment gets
\* a mkdir and a chown, and its existence is not consulted: with
\* needs_create set the loop goes to make_target_dir whatever exists.
SkippedOnlyBeforeFirstMissing ==
    /\ [](ProvisioningDone =>
            \A s \in Segments(target) :
               /\ s \notin TargetsOf("mkdir") =>
                     /\ s \in fs
                     /\ \A t \in Segments(target) :
                           Len(t) < Len(s) => t \in fs /\ t \notin TargetsOf("mkdir")
               /\ (\E m \in Missing : Len(m) <= Len(s)) =>
                     s \in TargetsOf("mkdir") /\ s \in TargetsOf("chown"))
    /\ [](needs_create => \E k \in 1..Len(splitting) : k <= idx /\ splitting[k] \notin fs)
    /\ [][(pc = "for" /\ needs_create /\ idx <= Len(splitting)) =>
             pc' = "make_target_dir"]_vars

ExistingSegmentChownedAfterMissing ==
    /\ ProvisioningDone
    /\ \E s \in fs : s \in TargetsOf("chown")
    /\ \E s \in fs : s \notin TargetsOf("mkdir")

\* C19, as claimed: one identity is resolved once per bridge and is the
\* owner of every chown: no identity query is issued twice, and all the
\* chown commands of a construction name the same owner.
IdentityQueries == {"id -nu", "id -ng", "id -u", "id -g"}

OneIdentityResolvedOnce ==
    /\ \A q \in IdentityQueries : Cardinality(Issued(q)) <= 1
    /\ \A i \in Issued("chown") : \A j \in Issued("chown") : cmds[i].owner = cmds[j].owner

\* C19, amended: the numeric default identity is resolved once, after the
\* last chown (one id -u, one id -g), and its parsed values are what the
\* server gets; the owner of a created directory is resolved separately, by
\* name, for every created segment: each chown is preceded by its own id -nu
\* and id -ng and names their trimmed outputs.
OwnerResolvedPerSegment ==
    /\ Cardinality(Issued("id -u")) <= 1
    /\ Cardinality(Issued("id -g")) <= 1
    /\ \A k \in Issued("chown") :
          /\ k > 2
          /\ cmds[k - 2].cmd = "id -nu"
          /\ cmds[k - 1].cmd = "id -ng"
          /\ cmds[k].owner = <<trim_end(cmds[k - 2].out), trim_end(cmds[k - 1].out)>>
          /\ \A i \in 1..k : cmds[i].cmd \notin IdentityCmds
    /\ ProvisioningDone =>
          LET created == Cardinality(Issued("mkdir"))
          IN  /\ Cardinality(Issued("id -nu")) = created
              /\ Cardinality(Issued("id -ng")) = created
    /\ sftp_server = "constructed" =>
          /\ default_uid = <<stoi(cmds[Len(cmds) - 1].out).val>>
          /\ default_gid = <<stoi(cmds[Len(cmds)].out).val>>

OwnersDifferBetweenSegments ==
    /\ sftp_server = "constructed"
    /\ \E i \in Issued("chown") : \E j \in Issued("chown") : cmds[i].owner # cmds[j].owner

====
